---------------------------- MODULE Spec2Model ----------------------------
(***************************************************************************)
(* A model of two drivers of the miatoll kernel tree:                      *)
(*                                                                         *)
(*   drivers/devfreq/devfreq_boost.c          one slot of devices[]: its   *)
(*       state bits, its unboost delayed work, its boost kthread, and the  *)
(*       producers (kicks, input events, the display notifier);            *)
(*   drivers/staging/android/ion/ion_page_pool.c   one ion_page_pool: its  *)
(*       two lists, its counts, its spinlock, and the callers of alloc,    *)
(*       alloc_pool_only, free, free_immediate, total and shrink; and the  *)
(*       global nr_total_pages as several pools update it side by side.    *)
(*                                                                         *)
(* Every bit operation, every wake_up, every lock acquisition is a step of *)
(* its own, so that the interleavings of the producers, the timer callback *)
(* and the kthread are those of the code.  The loops over DEVFREQ_MAX      *)
(* apply the same body to each slot, and the slots share no state: the     *)
(* model follows one slot.                                                 *)
(***************************************************************************)
EXTENDS Integers, Sequences, FiniteSets, TLC

(***************************************************************************)
(* Bounds of the model.                                                    *)
(***************************************************************************)
\* Contexts that may be inside __devfreq_boost_kick at once.
NumKickers == 1

\* Callers that may be inside the page pool's functions at once.
NumCallers == 2

\* Pages that exist; the even ones are highmem pages.
MaxPages == 4

\* pool->order of the pool created, and the largest nr_to_scan passed.
PoolOrder == 1
MaxScan == 3

\* Pools that update nr_total_pages side by side, each under its own lock,
\* and the pages one of them may hold.
NumPools == 2
MaxPoolPages == 2

\* How far from 0 nr_total_pages may have drifted for one more update to
\* be started.
MaxDrift == 4

(***************************************************************************)
(* devfreq_boost.c: constants.                                             *)
(***************************************************************************)
\* enum { SCREEN_OFF, INPUT_BOOST, MAX_BOOST }: bit numbers in b->state.
SCREEN_OFF == 0
INPUT_BOOST == 1
MAX_BOOST == 2

\* CONFIG_DEVFREQ_INPUT_BOOST_DURATION_MS and ..._MAX_DURATION_MS.
CONFIG_DEVFREQ_INPUT_BOOST_DURATION_MS == 100
CONFIG_DEVFREQ_INPUT_BOOST_MAX_DURATION_MS == 250

\* df->profile->freq_table[0] and b->boost_freq of the slot modelled.
freq_table_0 == 1
boost_freq == 3
\* The values df->max_freq may have: one below boost_freq, one above.
MaxFreqs == {2, 4}

\* msm_drm notifier arguments.
NotifierActions == {"MSM_DRM_EARLY_EVENT_BLANK", "MSM_DRM_EVENT_BLANK"}
BlankValues == {"MSM_DRM_BLANK_UNBLANK", "MSM_DRM_BLANK_POWERDOWN"}

Kickers == 1..NumKickers
Pools == 1..NumPools

(***************************************************************************)
(* ion_page_pool.c: pages and callers.                                     *)
(***************************************************************************)
Pages == 1..MaxPages
Callers == 1..NumCallers

\* A struct page * that is NULL, and a spinlock nobody holds.
NULL == 0
UNLOCKED == 0

\* errno values: a function returns ERR_PTR(-E...).
EINTR == 4
ENOMEM == 12
EINVAL == 22

\* PageHighMem(page): a property of the page, fixed for its lifetime.
PageHighMem(page) == page % 2 = 0

VARIABLES
    \* ---- struct boost_dev and the devfreq it points to
    df,               \* b->df: "NULL" or "df" (registered)
    max_freq,         \* df->max_freq
    min_freq,         \* df->min_freq
    updates,          \* whether update_devfreq(df) was ever called by the kthread
    state,            \* b->state: the set of bit numbers that are set
    unboost_pending,  \* b->unboost: timer armed or work queued, not yet running
    unboost_delay,    \* the delay b->unboost was last armed with (ms)
    unboost_pc,       \* devfreq_unboost(): "idle" or the statement it is at
    \* ---- devfreq_boost_thread
    w_pc,             \* "wait" (evaluating wait_event), "sleep", "update", "oops", "exit"
    old_state,
    curr_state,
    should_stop,      \* kthread_should_stop()
    \* ---- producers
    k_pc,             \* per kicker: position in __devfreq_boost_kick
    k_max,            \* per kicker: the argument max (FALSE outside the call)
    n_pc,             \* msm_drm_notifier_cb: "idle" or "wake"
    \* ---- observer: the run "kick(false); kick(true)" with nothing in between
    scen,
    \* ---- struct ion_page_pool, and nr_total_pages
    order,            \* pool->order
    low_items,        \* pool->low_items, first entry first
    high_items,       \* pool->high_items
    low_count,        \* pool->low_count
    high_count,       \* pool->high_count
    lock,             \* pool->lock: UNLOCKED or the caller holding it
    nr_total_pages,
    bug_on,           \* a BUG_ON() of ion_page_pool_remove() has fired
    \* ---- the pages outside the pool
    raw,              \* pages the page allocator holds (free memory)
    user,             \* pages the pool's users hold
    \* ---- callers of the pool's functions
    c_op,             \* the function a caller is in, or "none"
    c_pc,             \* its position in it
    c_page,           \* its local page
    c_high,           \* its argument / local high
    c_scan,           \* shrink: nr_to_scan
    c_freed,          \* shrink: freed
    c_released,       \* observer: pages the shrink under way gave to __free_pages()
    c_count,          \* total: count
    c_from_pool,      \* alloc: *from_pool
    c_ret,            \* the value it is returning
    \* ---- observer: the pooled pages in the order they were inserted
    inserted,
    \* ---- nr_total_pages under several pools: each pool's add/remove, under
    \* ---- that pool's lock alone, and ion_page_pool_nr_pages()
    p_pc,             \* per pool: "idle", or the store its add / remove is at
    p_reg,            \* per pool: the value of nr_total_pages it loaded
    p_count,          \* per pool: low_count + high_count
    nr_pc,            \* ion_page_pool_nr_pages(): "idle", "clamp", "ret"
    nr_reg,           \* the value its test loaded
    nr_ret            \* the value it returned last

boost_vars == <<df, max_freq, min_freq, updates, state, unboost_pending,
                unboost_delay, unboost_pc, w_pc, old_state, curr_state,
                should_stop, k_pc, k_max, n_pc, scen>>

pool_vars == <<order, low_items, high_items, low_count, high_count, lock,
               nr_total_pages, bug_on, raw, user, c_op, c_pc, c_page, c_high,
               c_scan, c_freed, c_released, c_count, c_from_pool, c_ret, inserted>>

counter_vars == <<p_pc, p_reg, p_count, nr_pc, nr_reg, nr_ret>>

vars == <<boost_vars, pool_vars, counter_vars>>

(***************************************************************************)
(* Bit operations on b->state.                                             *)
(***************************************************************************)
set_bit(nr, s) == s \cup {nr}
clear_bit(nr, s) == s \ {nr}
test_bit(nr, s) == nr \in s

min(a, b) == IF a < b THEN a ELSE b

\* wake_up(&b->boost_waitq): a sleeping kthread re-evaluates its condition.
wake_up(pc) == IF pc = "sleep" THEN "wait" ELSE pc



(***************************************************************************)
(* __devfreq_boost_kick(b, max), statement by statement.                   *)
(***************************************************************************)
\* A kick whose check forgets the SCREEN_OFF bit.
kick_bails_no_screen_test(d, s) == d = "NULL"

\* if (!READ_ONCE(b->df) || test_bit(SCREEN_OFF, &b->state)) return;
\* b->df is only ever written once, from NULL to the device, so the two
\* reads are taken at the instant of the second.
kick_bails(d, s) == d = "NULL" \/ test_bit(SCREEN_OFF, s)

\* set_bit(MAX_BOOST, &b->state);
kick_set_max(s) == set_bit(MAX_BOOST, s)

\* A max kick that leaves INPUT_BOOST as it finds it.
kick_clear_input_skipped(s) == s

\* clear_bit(INPUT_BOOST, &b->state);
kick_clear_input(s) == clear_bit(INPUT_BOOST, s)

\* set_bit(INPUT_BOOST, &b->state);   (the else branch: nothing is cleared)
kick_set_input(s) == set_bit(INPUT_BOOST, s)

\* A kick that arms the input duration whatever its kind.
kick_duration_input_only(max) == CONFIG_DEVFREQ_INPUT_BOOST_DURATION_MS

\* input_boost_duration = max ? ..._MAX_DURATION_MS : ..._DURATION_MS;
kick_duration(max) ==
    IF max THEN CONFIG_DEVFREQ_INPUT_BOOST_MAX_DURATION_MS
           ELSE CONFIG_DEVFREQ_INPUT_BOOST_DURATION_MS

\* No other kick, no unboost callback and no notifier call is under way.
Quiet(k) ==
    /\ \A j \in Kickers \ {k} : k_pc[j] \in {"idle", "check"}
    /\ unboost_pc = "idle"
    /\ n_pc = "idle"

\* The observer scen follows one scenario: a kick(max=false) that runs from
\* its check to its return with nothing else under way ("k1", then "d1"),
\* followed by a kick(max=true) that does the same ("k2", then "d2").  Any
\* other kick passing its check, the timer expiring and any notifier call
\* put it back to "none".  It is read by no action.
ScenStart(k) ==
    IF Quiet(k) /\ ~k_max[k] THEN "k1"
    ELSE IF Quiet(k) /\ k_max[k] /\ scen = "d1" THEN "k2"
    ELSE "none"

\* The observer, when a kick returns.
ScenEnd ==
    IF scen = "k1" THEN "d1"
    ELSE IF scen = "k2" THEN "d2"
    ELSE scen

\* devfreq_boost_kick(device, max): the call enters __devfreq_boost_kick.
devfreq_boost_kick(k, max) ==
    /\ k_pc[k] = "idle"
    /\ k_pc' = [k_pc EXCEPT ![k] = "check"]
    /\ k_max' = [k_max EXCEPT ![k] = max]
    /\ UNCHANGED <<df, max_freq, min_freq, updates, state, unboost_pending,
                   unboost_delay, unboost_pc, w_pc, old_state, curr_state,
                   should_stop, n_pc, scen>>
    /\ UNCHANGED <<pool_vars, counter_vars>>

\* devfreq_boost_input_event(): __devfreq_boost_kick(d->devices + i, false).
devfreq_boost_input_event(k) ==
    /\ k_pc[k] = "idle"
    /\ k_pc' = [k_pc EXCEPT ![k] = "check"]
    /\ k_max' = [k_max EXCEPT ![k] = FALSE]
    /\ UNCHANGED <<df, max_freq, min_freq, updates, state, unboost_pending,
                   unboost_delay, unboost_pc, w_pc, old_state, curr_state,
                   should_stop, n_pc, scen>>
    /\ UNCHANGED <<pool_vars, counter_vars>>

\* Line 56-57: the check, and the early return.
KickCheck(k) ==
    /\ k_pc[k] = "check"
    /\ IF kick_bails(df, state)
         THEN /\ k_pc' = [k_pc EXCEPT ![k] = "idle"]
              /\ k_max' = [k_max EXCEPT ![k] = FALSE]
              /\ scen' = scen
         ELSE /\ k_pc' = [k_pc EXCEPT ![k] =
                            IF k_max[k] THEN "set_max" ELSE "set_input"]
              /\ k_max' = k_max
              /\ scen' = ScenStart(k)
    /\ UNCHANGED <<df, max_freq, min_freq, updates, state, unboost_pending,
                   unboost_delay, unboost_pc, w_pc, old_state, curr_state,
                   should_stop, n_pc>>
    /\ UNCHANGED <<pool_vars, counter_vars>>

\* Line 60.
KickSetMax(k) ==
    /\ k_pc[k] = "set_max"
    /\ state' = kick_set_max(state)
    /\ k_pc' = [k_pc EXCEPT ![k] = "clear_input"]
    /\ UNCHANGED <<df, max_freq, min_freq, updates, unboost_pending,
                   unboost_delay, unboost_pc, w_pc, old_state, curr_state,
                   should_stop, k_max, n_pc, scen>>
    /\ UNCHANGED <<pool_vars, counter_vars>>

\* Line 61.
KickClearInput(k) ==
    /\ k_pc[k] = "clear_input"
    /\ state' = kick_clear_input(state)
    /\ k_pc' = [k_pc EXCEPT ![k] = "mod"]
    /\ UNCHANGED <<df, max_freq, min_freq, updates, unboost_pending,
                   unboost_delay, unboost_pc, w_pc, old_state, curr_state,
                   should_stop, k_max, n_pc, scen>>
    /\ UNCHANGED <<pool_vars, counter_vars>>

\* Line 64.
KickSetInput(k) ==
    /\ k_pc[k] = "set_input"
    /\ state' = kick_set_input(state)
    /\ k_pc' = [k_pc EXCEPT ![k] = "mod"]
    /\ UNCHANGED <<df, max_freq, min_freq, updates, unboost_pending,
                   unboost_delay, unboost_pc, w_pc, old_state, curr_state,
                   should_stop, k_max, n_pc, scen>>
    /\ UNCHANGED <<pool_vars, counter_vars>>

\* Line 68-69: mod_delayed_work() re-arms the work with the new delay and
\* returns whether it was pending.  A work whose callback is running is
\* not pending: it is queued afresh.  When it was pending the kick returns.
KickMod(k) ==
    /\ k_pc[k] = "mod"
    /\ unboost_pending' = TRUE
    /\ unboost_delay' = kick_duration(k_max[k])
    /\ k_max' = [k_max EXCEPT ![k] = FALSE]
    /\ IF unboost_pending
         THEN /\ k_pc' = [k_pc EXCEPT ![k] = "idle"]
              /\ scen' = ScenEnd
         ELSE /\ k_pc' = [k_pc EXCEPT ![k] = "wake"]
              /\ scen' = scen
    /\ UNCHANGED <<df, max_freq, min_freq, updates, state, unboost_pc, w_pc,
                   old_state, curr_state, should_stop, n_pc>>
    /\ UNCHANGED <<pool_vars, counter_vars>>

\* Line 70: wake_up(&b->boost_waitq).
KickWake(k) ==
    /\ k_pc[k] = "wake"
    /\ w_pc' = wake_up(w_pc)
    /\ k_pc' = [k_pc EXCEPT ![k] = "idle"]
    /\ scen' = ScenEnd
    /\ UNCHANGED <<df, max_freq, min_freq, updates, state, unboost_pending,
                   unboost_delay, unboost_pc, old_state, curr_state,
                   should_stop, k_max, n_pc>>
    /\ UNCHANGED <<pool_vars, counter_vars>>

(***************************************************************************)
(* devfreq_register_boost_device(device, df).                              *)
(***************************************************************************)
devfreq_register_boost_device(mf) ==
    /\ df = "NULL"
    /\ df' = "df"
    /\ max_freq' = mf
    /\ UNCHANGED <<min_freq, updates, state, unboost_pending, unboost_delay,
                   unboost_pc, w_pc, old_state, curr_state, should_stop,
                   k_pc, k_max, n_pc, scen>>
    /\ UNCHANGED <<pool_vars, counter_vars>>

(***************************************************************************)
(* b->unboost: the timer expires and the workqueue runs devfreq_unboost(). *)
(***************************************************************************)
\* An unboost that leaves MAX_BOOST set.
unboost_clear_max_skipped(s) == s

\* clear_bit(MAX_BOOST, &b->state);
unboost_clear_max(s) == clear_bit(MAX_BOOST, s)

\* An unboost that leaves INPUT_BOOST set.
unboost_clear_input_skipped(s) == s

\* clear_bit(INPUT_BOOST, &b->state);
unboost_clear_input(s) == clear_bit(INPUT_BOOST, s)

\* The delay has passed: the work stops being pending and its callback
\* starts.  A work item never runs concurrently with itself.
UnboostFire ==
    /\ unboost_pending
    /\ unboost_pc = "idle"
    /\ unboost_pending' = FALSE
    /\ unboost_pc' = "clear_max"
    /\ scen' = "none"
    /\ UNCHANGED <<df, max_freq, min_freq, updates, state, unboost_delay,
                   w_pc, old_state, curr_state, should_stop, k_pc, k_max,
                   n_pc>>
    /\ UNCHANGED <<pool_vars, counter_vars>>

\* Line 95.
UnboostClearMax ==
    /\ unboost_pc = "clear_max"
    /\ state' = unboost_clear_max(state)
    /\ unboost_pc' = "clear_input"
    /\ UNCHANGED <<df, max_freq, min_freq, updates, unboost_pending,
                   unboost_delay, w_pc, old_state, curr_state, should_stop,
                   k_pc, k_max, n_pc, scen>>
    /\ UNCHANGED <<pool_vars, counter_vars>>

\* Line 96.
UnboostClearInput ==
    /\ unboost_pc = "clear_input"
    /\ state' = unboost_clear_input(state)
    /\ unboost_pc' = "wake"
    /\ UNCHANGED <<df, max_freq, min_freq, updates, unboost_pending,
                   unboost_delay, w_pc, old_state, curr_state, should_stop,
                   k_pc, k_max, n_pc, scen>>
    /\ UNCHANGED <<pool_vars, counter_vars>>

\* Line 97.
UnboostWake ==
    /\ unboost_pc = "wake"
    /\ w_pc' = wake_up(w_pc)
    /\ unboost_pc' = "idle"
    /\ UNCHANGED <<df, max_freq, min_freq, updates, state, unboost_pending,
                   unboost_delay, old_state, curr_state, should_stop, k_pc,
                   k_max, n_pc, scen>>
    /\ UNCHANGED <<pool_vars, counter_vars>>

(***************************************************************************)
(* devfreq_boost_thread and devfreq_update_boosts.                         *)
(***************************************************************************)
\* devfreq_update_boosts() with MAX_BOOST tested before SCREEN_OFF.
devfreq_update_boosts_max_first(st, mf) ==
    IF test_bit(MAX_BOOST, st) THEN mf
    ELSE IF test_bit(SCREEN_OFF, st) THEN freq_table_0
    ELSE IF test_bit(INPUT_BOOST, st) THEN min(boost_freq, mf)
    ELSE freq_table_0

\* The value devfreq_update_boosts() stores in df->min_freq for the state
\* it was handed: the if / else if / else of lines 105-113.
devfreq_update_boosts(st, mf) ==
    IF test_bit(SCREEN_OFF, st) THEN freq_table_0
    ELSE IF test_bit(MAX_BOOST, st) THEN mf
    ELSE IF test_bit(INPUT_BOOST, st) THEN min(boost_freq, mf)
    ELSE freq_table_0

\* wait_event(b->boost_waitq,
\*     (curr_state = READ_ONCE(b->state)) != old_state ||
\*     (should_stop = kthread_should_stop()));
\* The condition is evaluated with the task already on the wait queue, so
\* evaluating it and going to sleep is one step with respect to wake_up().
\* The || short-circuits: kthread_should_stop() is read only when the state
\* equals old_state.
WorkerWait ==
    /\ w_pc = "wait"
    /\ curr_state' = state
    /\ w_pc' = IF state # old_state THEN "update"
               ELSE IF should_stop THEN "exit"
               ELSE "sleep"
    /\ UNCHANGED <<df, max_freq, min_freq, updates, state, unboost_pending,
                   unboost_delay, unboost_pc, old_state, should_stop, k_pc,
                   k_max, n_pc, scen>>
    /\ UNCHANGED <<pool_vars, counter_vars>>

\* old_state = curr_state; devfreq_update_boosts(b, curr_state);
\* devfreq_update_boosts() reads b->df and locks df->lock without a NULL
\* check: with no device registered the kthread faults on the NULL pointer
\* and is gone.
WorkerUpdate ==
    /\ w_pc = "update"
    /\ old_state' = curr_state
    /\ IF df = "NULL"
         THEN /\ w_pc' = "oops"
              /\ UNCHANGED <<min_freq, updates>>
         ELSE /\ min_freq' = devfreq_update_boosts(curr_state, max_freq)
              /\ updates' = TRUE
              /\ w_pc' = "wait"
    /\ UNCHANGED <<df, max_freq, state, unboost_pending, unboost_delay,
                   unboost_pc, curr_state, should_stop, k_pc, k_max, n_pc,
                   scen>>
    /\ UNCHANGED <<pool_vars, counter_vars>>

\* kthread_stop(thread[i]) of devfreq_boost_init's error path.
KthreadStop ==
    /\ ~should_stop
    /\ should_stop' = TRUE
    /\ w_pc' = wake_up(w_pc)
    /\ UNCHANGED <<df, max_freq, min_freq, updates, state, unboost_pending,
                   unboost_delay, unboost_pc, old_state, curr_state, k_pc,
                   k_max, n_pc, scen>>
    /\ UNCHANGED <<pool_vars, counter_vars>>

(***************************************************************************)
(* msm_drm_notifier_cb.                                                    *)
(***************************************************************************)
\* A notifier that calls wake_up() on both branches.
notifier_wakes_always(blank) == TRUE

\* wake_up(&b->boost_waitq) is in the else branch of
\* "if (*blank == MSM_DRM_BLANK_UNBLANK)" alone.
notifier_wakes(blank) == blank # "MSM_DRM_BLANK_UNBLANK"

\* The bit operation of the loop body for the slot, or the early return.
msm_drm_notifier_cb(action, blank) ==
    /\ n_pc = "idle"
    /\ IF action # "MSM_DRM_EARLY_EVENT_BLANK"
         THEN UNCHANGED <<state, n_pc, scen>>
         ELSE /\ state' = IF blank = "MSM_DRM_BLANK_UNBLANK"
                             THEN clear_bit(SCREEN_OFF, state)
                             ELSE set_bit(SCREEN_OFF, state)
              /\ scen' = "none"
              /\ n_pc' = IF notifier_wakes(blank) THEN "wake" ELSE n_pc
    /\ UNCHANGED <<df, max_freq, min_freq, updates, unboost_pending,
                   unboost_delay, unboost_pc, w_pc, old_state, curr_state,
                   should_stop, k_pc, k_max>>
    /\ UNCHANGED <<pool_vars, counter_vars>>

\* Line 166: wake_up(&b->boost_waitq) after set_bit(SCREEN_OFF).
NotifierWake ==
    /\ n_pc = "wake"
    /\ w_pc' = wake_up(w_pc)
    /\ n_pc' = "idle"
    /\ UNCHANGED <<df, max_freq, min_freq, updates, state, unboost_pending,
                   unboost_delay, unboost_pc, old_state, curr_state,
                   should_stop, k_pc, k_max, scen>>
    /\ UNCHANGED <<pool_vars, counter_vars>>

(***************************************************************************)
(* ion_page_pool.c.                                                        *)
(*                                                                         *)
(* A function that takes pool->lock does so in the step that starts its    *)
(* critical section and releases it in a later step: what it does under    *)
(* the lock is invisible to the others until then, but the lock being held *)
(* is what makes their spin_trylock() fail and their spin_lock() wait.     *)
(* Here the one pool is the only writer of nr_total_pages; the counter     *)
(* under several pools is followed further down, on its own.               *)
(***************************************************************************)
\* x << n
shl(x, n) == x * 2^n

\* list_add(): insertion at the head of the list.
list_add(l, page) == <<page>> \o l

\* list_add_tail(&page->lru, &pool->..._items)
list_add_tail(l, page) == Append(l, page)

\* list_first_entry(&pool->..._items, struct page, lru)
list_first_entry(l) == Head(l)

\* A list_del() that leaves the entry linked.
list_del_none(l, page) == l

\* list_del(&page->lru)
list_del(l, page) == SelectSeq(l, LAMBDA x : x # page)

\* A trylock that does not look at the lock.
spin_trylock_blind(l) == TRUE

\* spin_trylock(&pool->lock) succeeds when nobody holds the lock.
spin_trylock(l) == l = UNLOCKED

\* The fields the list operations write.
pool_lists == <<low_items, high_items, low_count, high_count,
                nr_total_pages, bug_on, inserted>>

\* The locals of the callers other than c_op, c_pc, c_page, c_ret.
c_args == <<c_high, c_scan, c_freed, c_released, c_count, c_from_pool>>

\* ion_page_pool_remove(pool, high), called with the lock held by c: the
\* first entry of the list leaves it, the count and nr_total_pages drop.
ion_page_pool_remove(c, high) ==
    IF (IF high THEN high_count ELSE low_count) = 0
      THEN /\ bug_on' = TRUE
           /\ UNCHANGED <<low_items, high_items, low_count, high_count,
                          nr_total_pages, inserted, c_page>>
      ELSE LET page == list_first_entry(IF high THEN high_items
                                                ELSE low_items)
           IN /\ IF high
                   THEN /\ high_count' = high_count - 1
                        /\ high_items' = list_del(high_items, page)
                        /\ UNCHANGED <<low_count, low_items>>
                   ELSE /\ low_count' = low_count - 1
                        /\ low_items' = list_del(low_items, page)
                        /\ UNCHANGED <<high_count, high_items>>
              /\ nr_total_pages' = nr_total_pages - shl(1, order)
              /\ inserted' = list_del(inserted, page)
              /\ c_page' = [c_page EXCEPT ![c] = page]
              /\ bug_on' = bug_on

\* if (pool->high_count) page = remove(pool, true);
\* else if (pool->low_count) page = remove(pool, false);
RemoveHighFirst(c) ==
    IF high_count # 0 THEN ion_page_pool_remove(c, TRUE)
    ELSE IF low_count # 0 THEN ion_page_pool_remove(c, FALSE)
    ELSE UNCHANGED <<pool_lists, c_page>>

\* ion_page_pool_alloc(pool, from_pool) up to the end of its first if:
\* the signal test, the trylock and the removal.
ion_page_pool_alloc(c, from_pool, fatal_signal_pending) ==
    /\ c_op[c] = "none"
    /\ c_op' = [c_op EXCEPT ![c] = "alloc"]
    /\ c_from_pool' = [c_from_pool EXCEPT ![c] = from_pool]
    /\ IF fatal_signal_pending
         THEN /\ c_pc' = [c_pc EXCEPT ![c] = "ret"]
              /\ c_ret' = [c_ret EXCEPT ![c] = -EINTR]
              /\ UNCHANGED <<lock, pool_lists, c_page>>
         ELSE IF from_pool /\ spin_trylock(lock)
           THEN /\ lock' = c
                /\ RemoveHighFirst(c)
                /\ c_pc' = [c_pc EXCEPT ![c] = "unlock"]
                /\ c_ret' = c_ret
           ELSE /\ c_pc' = [c_pc EXCEPT ![c] = "alloc_pages"]
                /\ UNCHANGED <<lock, pool_lists, c_page, c_ret>>
    /\ UNCHANGED <<order, raw, user, c_high, c_scan, c_freed, c_released, c_count>>
    /\ UNCHANGED <<boost_vars, counter_vars>>

\* spin_unlock(&pool->lock) of ion_page_pool_alloc, and "if (!page)".
AllocUnlock(c) ==
    /\ c_op[c] = "alloc"
    /\ c_pc[c] = "unlock"
    /\ lock' = UNLOCKED
    /\ IF c_page[c] = NULL
         THEN /\ c_pc' = [c_pc EXCEPT ![c] = "alloc_pages"]
              /\ c_ret' = c_ret
         ELSE /\ c_pc' = [c_pc EXCEPT ![c] = "ret"]
              /\ c_ret' = [c_ret EXCEPT ![c] = c_page[c]]
    /\ c_page' = [c_page EXCEPT ![c] = NULL]
    /\ UNCHANGED <<order, pool_lists, raw, user, c_op, c_args>>
    /\ UNCHANGED <<boost_vars, counter_vars>>

\* page = ion_page_pool_alloc_pages(pool); *from_pool = false;
\* alloc_pages() hands out a free page or, out of memory, NULL.
AllocPages(c) ==
    /\ c_op[c] = "alloc"
    /\ c_pc[c] = "alloc_pages"
    /\ \E page \in raw \cup {NULL} :
         /\ raw' = raw \ {page}
         /\ c_ret' = [c_ret EXCEPT ![c] =
                        IF page = NULL THEN -ENOMEM ELSE page]
    /\ c_from_pool' = [c_from_pool EXCEPT ![c] = FALSE]
    /\ c_pc' = [c_pc EXCEPT ![c] = "ret"]
    /\ UNCHANGED <<order, lock, pool_lists, user, c_op, c_page, c_high,
                   c_scan, c_freed, c_released, c_count>>
    /\ UNCHANGED <<boost_vars, counter_vars>>

\* ion_page_pool_alloc_pool_only(pool) up to its spin_unlock().
ion_page_pool_alloc_pool_only(c, pool) ==
    /\ c_op[c] = "none"
    /\ c_op' = [c_op EXCEPT ![c] = "alloc_pool_only"]
    /\ IF pool = NULL
         THEN /\ c_pc' = [c_pc EXCEPT ![c] = "ret"]
              /\ c_ret' = [c_ret EXCEPT ![c] = -EINVAL]
              /\ UNCHANGED <<lock, pool_lists, c_page>>
         ELSE IF spin_trylock(lock)
           THEN /\ lock' = c
                /\ RemoveHighFirst(c)
                /\ c_pc' = [c_pc EXCEPT ![c] = "unlock"]
                /\ c_ret' = c_ret
           ELSE /\ c_pc' = [c_pc EXCEPT ![c] = "ret"]
                /\ c_ret' = [c_ret EXCEPT ![c] = -ENOMEM]
                /\ UNCHANGED <<lock, pool_lists, c_page>>
    /\ UNCHANGED <<order, raw, user, c_args>>
    /\ UNCHANGED <<boost_vars, counter_vars>>

\* spin_unlock(&pool->lock) of ion_page_pool_alloc_pool_only, and its
\* return: ERR_PTR(-ENOMEM) when there is no page.
AllocPoolOnlyUnlock(c) ==
    /\ c_op[c] = "alloc_pool_only"
    /\ c_pc[c] = "unlock"
    /\ lock' = UNLOCKED
    /\ c_pc' = [c_pc EXCEPT ![c] = "ret"]
    /\ c_ret' = [c_ret EXCEPT ![c] =
                   IF c_page[c] = NULL THEN -ENOMEM ELSE c_page[c]]
    /\ c_page' = [c_page EXCEPT ![c] = NULL]
    /\ UNCHANGED <<order, pool_lists, raw, user, c_op, c_args>>
    /\ UNCHANGED <<boost_vars, counter_vars>>

\* ion_page_pool_free(pool, page) -> ion_page_pool_add(): spin_lock() and
\* the insertion at the tail of the list of the page's class.
ion_page_pool_free(c, page) ==
    /\ c_op[c] = "none"
    /\ page \in user
    /\ lock = UNLOCKED
    /\ lock' = c
    /\ user' = user \ {page}
    /\ IF PageHighMem(page)
         THEN /\ high_items' = list_add_tail(high_items, page)
              /\ high_count' = high_count + 1
              /\ UNCHANGED <<low_items, low_count>>
         ELSE /\ low_items' = list_add_tail(low_items, page)
              /\ low_count' = low_count + 1
              /\ UNCHANGED <<high_items, high_count>>
    /\ nr_total_pages' = nr_total_pages + shl(1, order)
    /\ inserted' = Append(inserted, page)
    /\ c_op' = [c_op EXCEPT ![c] = "free"]
    /\ c_pc' = [c_pc EXCEPT ![c] = "unlock"]
    /\ UNCHANGED <<order, bug_on, raw, c_page, c_args, c_ret>>
    /\ UNCHANGED <<boost_vars, counter_vars>>

\* spin_unlock(&pool->lock); return 0;  of ion_page_pool_add.
AddUnlock(c) ==
    /\ c_op[c] = "free"
    /\ c_pc[c] = "unlock"
    /\ lock' = UNLOCKED
    /\ c_op' = [c_op EXCEPT ![c] = "none"]
    /\ c_pc' = [c_pc EXCEPT ![c] = "idle"]
    /\ UNCHANGED <<order, pool_lists, raw, user, c_page, c_args, c_ret>>
    /\ UNCHANGED <<boost_vars, counter_vars>>

\* ion_page_pool_free_immediate(pool, page): __free_pages(page, order).
ion_page_pool_free_immediate(c, page) ==
    /\ c_op[c] = "none"
    /\ page \in user
    /\ user' = user \ {page}
    /\ raw' = raw \cup {page}
    /\ UNCHANGED <<order, lock, pool_lists, c_op, c_pc, c_page, c_args,
                   c_ret>>
    /\ UNCHANGED <<boost_vars, counter_vars>>

\* A total that counts the high pages whatever its argument.
total_high_part_always(high, count) == count

\* if (high) count += pool->high_count;   (what is added to count)
total_high_part(high, count) == IF high THEN count ELSE 0

\* ion_page_pool_total(pool, high): int count = pool->low_count;
\* The counts are read without the lock, one after the other.
ion_page_pool_total(c, high) ==
    /\ c_op[c] = "none"
    /\ c_op' = [c_op EXCEPT ![c] = "total"]
    /\ c_high' = [c_high EXCEPT ![c] = high]
    /\ c_count' = [c_count EXCEPT ![c] = low_count]
    /\ c_pc' = [c_pc EXCEPT ![c] = "total_high"]
    /\ UNCHANGED <<order, lock, pool_lists, raw, user, c_page, c_scan,
                   c_freed, c_released, c_from_pool, c_ret>>
    /\ UNCHANGED <<boost_vars, counter_vars>>

\* if (high) count += pool->high_count; return count << pool->order;
\* of ion_page_pool_total, called directly or from ion_page_pool_shrink.
TotalReturn(c) ==
    /\ c_op[c] \in {"total", "shrink"}
    /\ c_pc[c] = "total_high"
    /\ LET count == c_count[c] + total_high_part(c_high[c], high_count)
       IN c_ret' = [c_ret EXCEPT ![c] = shl(count, order)]
    /\ c_pc' = [c_pc EXCEPT ![c] = "ret"]
    /\ c_count' = [c_count EXCEPT ![c] = 0]
    /\ c_high' = [c_high EXCEPT ![c] = FALSE]
    /\ UNCHANGED <<order, lock, pool_lists, raw, user, c_op, c_page, c_scan,
                   c_freed, c_released, c_from_pool>>
    /\ UNCHANGED <<boost_vars, counter_vars>>

\* ion_page_pool_shrink(pool, gfp_mask, nr_to_scan) up to its loop:
\* high = current_is_kswapd() || (gfp_mask & __GFP_HIGHMEM); with
\* nr_to_scan == 0 it enters ion_page_pool_total(pool, high).
ion_page_pool_shrink(c, current_is_kswapd, gfp_highmem, nr_to_scan) ==
    /\ c_op[c] = "none"
    /\ c_op' = [c_op EXCEPT ![c] = "shrink"]
    /\ c_high' = [c_high EXCEPT ![c] = current_is_kswapd \/ gfp_highmem]
    /\ c_scan' = [c_scan EXCEPT ![c] = nr_to_scan]
    /\ IF nr_to_scan = 0
         THEN /\ c_count' = [c_count EXCEPT ![c] = low_count]
              /\ c_pc' = [c_pc EXCEPT ![c] = "total_high"]
         ELSE /\ c_count' = c_count
              /\ c_pc' = [c_pc EXCEPT ![c] = "shrink_lock"]
    /\ UNCHANGED <<order, lock, pool_lists, raw, user, c_page, c_freed, c_released,
                   c_from_pool, c_ret>>
    /\ UNCHANGED <<boost_vars, counter_vars>>

\* A loop body that looks at the high list first.
shrink_pick_high_first(lcount, high, hcount) ==
    IF high /\ hcount # 0 THEN "high"
    ELSE IF lcount # 0 THEN "low"
    ELSE "none"

\* A loop body that pops the low list without looking at its count.
shrink_pick_low_unchecked(lcount, high, hcount) ==
    IF lcount = 0 /\ high /\ hcount # 0 THEN "high" ELSE "low"

\* if (pool->low_count) ... else if (high && pool->high_count) ... else
\* break;  of the loop body: the list the turn takes its page from.
shrink_pick(lcount, high, hcount) ==
    IF lcount # 0 THEN "low"
    ELSE IF high /\ hcount # 0 THEN "high"
    ELSE "none"

\* One turn of the loop, to its removal: spin_lock(), then low first, high
\* only for a caller with high set, or nothing.
ShrinkLock(c) ==
    /\ c_op[c] = "shrink"
    /\ c_pc[c] = "shrink_lock"
    /\ lock = UNLOCKED
    /\ lock' = c
    /\ LET pick == shrink_pick(low_count, c_high[c], high_count)
       IN IF pick = "low" THEN ion_page_pool_remove(c, FALSE)
          ELSE IF pick = "high" THEN ion_page_pool_remove(c, TRUE)
          ELSE UNCHANGED <<pool_lists, c_page>>
    /\ c_pc' = [c_pc EXCEPT ![c] = "unlock"]
    /\ UNCHANGED <<order, raw, user, c_op, c_args, c_ret>>
    /\ UNCHANGED <<boost_vars, counter_vars>>

\* A loop that goes on while freed <= nr_to_scan.
shrink_continues_inclusive(freed, nr_to_scan) == freed <= nr_to_scan

\* while (freed < nr_to_scan)
shrink_continues(freed, nr_to_scan) == freed < nr_to_scan

\* The rest of the turn: spin_unlock(), then either the break and the
\* return, or ion_page_pool_free_pages(), freed += 1 << order and the
\* loop test.
ShrinkUnlock(c) ==
    /\ c_op[c] = "shrink"
    /\ c_pc[c] = "unlock"
    /\ lock' = UNLOCKED
    /\ LET freed == IF c_page[c] = NULL THEN c_freed[c]
                     ELSE c_freed[c] + shl(1, order)
       IN /\ raw' = IF c_page[c] = NULL THEN raw ELSE raw \cup {c_page[c]}
          /\ c_released' = [c_released EXCEPT ![c] =
                               IF c_page[c] = NULL THEN @ ELSE @ + 1]
          /\ c_page' = [c_page EXCEPT ![c] = NULL]
          /\ IF c_page[c] # NULL /\ shrink_continues(freed, c_scan[c])
               THEN /\ c_pc' = [c_pc EXCEPT ![c] = "shrink_lock"]
                    /\ c_freed' = [c_freed EXCEPT ![c] = freed]
                    /\ UNCHANGED <<c_ret, c_high, c_scan>>
               ELSE /\ c_pc' = [c_pc EXCEPT ![c] = "ret"]
                    /\ c_ret' = [c_ret EXCEPT ![c] = freed]
                    /\ c_freed' = [c_freed EXCEPT ![c] = 0]
                    /\ c_high' = [c_high EXCEPT ![c] = FALSE]
                    /\ c_scan' = [c_scan EXCEPT ![c] = 0]
    /\ UNCHANGED <<order, pool_lists, user, c_op, c_count, c_from_pool>>
    /\ UNCHANGED <<boost_vars, counter_vars>>

\* The function returns (its locals went when it set its return value):
\* a page it returned is now held by its caller.
Return(c) ==
    /\ c_pc[c] = "ret"
    /\ user' = IF c_op[c] \in {"alloc", "alloc_pool_only"} /\ c_ret[c] > 0
                 THEN user \cup {c_ret[c]}
                 ELSE user
    /\ c_op' = [c_op EXCEPT ![c] = "none"]
    /\ c_pc' = [c_pc EXCEPT ![c] = "idle"]
    /\ c_from_pool' = [c_from_pool EXCEPT ![c] = FALSE]
    /\ c_ret' = [c_ret EXCEPT ![c] = 0]
    /\ c_released' = [c_released EXCEPT ![c] = 0]
    /\ UNCHANGED <<order, lock, pool_lists, raw, c_page, c_high, c_scan,
                   c_freed, c_count>>
    /\ UNCHANGED <<boost_vars, counter_vars>>

\* ion_page_pool_create(gfp_mask, order, cached): an empty pool; every page
\* is with the page allocator.
InitPool ==
    /\ order = PoolOrder
    /\ low_items = <<>>
    /\ high_items = <<>>
    /\ low_count = 0
    /\ high_count = 0
    /\ lock = UNLOCKED
    /\ nr_total_pages = 0
    /\ bug_on = FALSE
    /\ raw = Pages
    /\ user = {}
    /\ c_op = [c \in Callers |-> "none"]
    /\ c_pc = [c \in Callers |-> "idle"]
    /\ c_page = [c \in Callers |-> NULL]
    /\ c_high = [c \in Callers |-> FALSE]
    /\ c_scan = [c \in Callers |-> 0]
    /\ c_freed = [c \in Callers |-> 0]
    /\ c_released = [c \in Callers |-> 0]
    /\ c_count = [c \in Callers |-> 0]
    /\ c_from_pool = [c \in Callers |-> FALSE]
    /\ c_ret = [c \in Callers |-> 0]
    /\ inserted = <<>>

NextPool ==
    \/ \E c \in Callers, from_pool \in BOOLEAN, sig \in BOOLEAN :
            ion_page_pool_alloc(c, from_pool, sig)
    \/ \E c \in Callers : AllocUnlock(c)
    \/ \E c \in Callers : AllocPages(c)
    \/ \E c \in Callers, pool \in {NULL, 1} :
            ion_page_pool_alloc_pool_only(c, pool)
    \/ \E c \in Callers : AllocPoolOnlyUnlock(c)
    \/ \E c \in Callers, page \in Pages : ion_page_pool_free(c, page)
    \/ \E c \in Callers : AddUnlock(c)
    \/ \E c \in Callers, page \in Pages : ion_page_pool_free_immediate(c, page)
    \/ \E c \in Callers, high \in BOOLEAN : ion_page_pool_total(c, high)
    \/ \E c \in Callers : TotalReturn(c)
    \/ \E c \in Callers, kswapd \in BOOLEAN, hm \in BOOLEAN,
          nr \in 0..MaxScan : ion_page_pool_shrink(c, kswapd, hm, nr)
    \/ \E c \in Callers : ShrinkLock(c)
    \/ \E c \in Callers : ShrinkUnlock(c)
    \/ \E c \in Callers : Return(c)

(***************************************************************************)
(* nr_total_pages with several pools.                                      *)
(*                                                                         *)
(* ion_page_pool_add() and ion_page_pool_remove() update the global with a *)
(* plain += and -= under the lock of their own pool, which excludes nobody *)
(* working on another pool: the load and the store of each update are      *)
(* steps of their own.  ion_page_pool_nr_pages() takes no lock at all.     *)
(***************************************************************************)
\* The pool fields, nr_total_pages apart.
pool_vars_but_total == <<order, low_items, high_items, low_count, high_count,
                         lock, bug_on, raw, user, c_op, c_pc, c_page, c_high,
                         c_scan, c_freed, c_released, c_count, c_from_pool,
                         c_ret, inserted>>

\* nr_total_pages += 1 << pool->order;  the load.
AddLoad(p) ==
    /\ p_pc[p] = "idle"
    /\ p_count[p] < MaxPoolPages
    /\ nr_total_pages < MaxDrift
    /\ p_count' = [p_count EXCEPT ![p] = @ + 1]
    /\ p_reg' = [p_reg EXCEPT ![p] = nr_total_pages]
    /\ p_pc' = [p_pc EXCEPT ![p] = "add_store"]
    /\ UNCHANGED <<nr_total_pages, nr_pc, nr_reg, nr_ret>>
    /\ UNCHANGED <<boost_vars, pool_vars_but_total>>

\* nr_total_pages += 1 << pool->order;  the store.
AddStore(p) ==
    /\ p_pc[p] = "add_store"
    /\ nr_total_pages' = p_reg[p] + shl(1, order)
    /\ p_reg' = [p_reg EXCEPT ![p] = 0]
    /\ p_pc' = [p_pc EXCEPT ![p] = "idle"]
    /\ UNCHANGED <<p_count, nr_pc, nr_reg, nr_ret>>
    /\ UNCHANGED <<boost_vars, pool_vars_but_total>>

\* nr_total_pages -= 1 << pool->order;  the load, on a pool that has a page.
RemoveLoad(p) ==
    /\ p_pc[p] = "idle"
    /\ p_count[p] > 0
    /\ nr_total_pages > -MaxDrift
    /\ p_count' = [p_count EXCEPT ![p] = @ - 1]
    /\ p_reg' = [p_reg EXCEPT ![p] = nr_total_pages]
    /\ p_pc' = [p_pc EXCEPT ![p] = "remove_store"]
    /\ UNCHANGED <<nr_total_pages, nr_pc, nr_reg, nr_ret>>
    /\ UNCHANGED <<boost_vars, pool_vars_but_total>>

\* nr_total_pages -= 1 << pool->order;  the store.
RemoveStore(p) ==
    /\ p_pc[p] = "remove_store"
    /\ nr_total_pages' = p_reg[p] - shl(1, order)
    /\ p_reg' = [p_reg EXCEPT ![p] = 0]
    /\ p_pc' = [p_pc EXCEPT ![p] = "idle"]
    /\ UNCHANGED <<p_count, nr_pc, nr_reg, nr_ret>>
    /\ UNCHANGED <<boost_vars, pool_vars_but_total>>

\* ion_page_pool_nr_pages(): if (nr_total_pages < 0)
ion_page_pool_nr_pages ==
    /\ nr_pc = "idle"
    /\ nr_reg' = nr_total_pages
    /\ nr_pc' = IF nr_total_pages < 0 THEN "clamp" ELSE "ret"
    /\ UNCHANGED <<nr_total_pages, p_pc, p_reg, p_count, nr_ret>>
    /\ UNCHANGED <<boost_vars, pool_vars_but_total>>

\* nr_total_pages = 0;
NrPagesClamp ==
    /\ nr_pc = "clamp"
    /\ nr_total_pages' = 0
    /\ nr_reg' = 0
    /\ nr_pc' = "ret"
    /\ UNCHANGED <<p_pc, p_reg, p_count, nr_ret>>
    /\ UNCHANGED <<boost_vars, pool_vars_but_total>>

\* return nr_total_pages;  a plain read of a global that others write with
\* no synchronisation: the build may return the value it already holds
\* from the test (or the 0 it stored), or load the global again.
NrPagesReturn ==
    /\ nr_pc = "ret"
    /\ nr_ret' \in {nr_reg, nr_total_pages}
    /\ nr_reg' = 0
    /\ nr_pc' = "idle"
    /\ UNCHANGED <<nr_total_pages, p_pc, p_reg, p_count>>
    /\ UNCHANGED <<boost_vars, pool_vars_but_total>>

InitCounter ==
    /\ p_pc = [p \in Pools |-> "idle"]
    /\ p_reg = [p \in Pools |-> 0]
    /\ p_count = [p \in Pools |-> 0]
    /\ nr_pc = "idle"
    /\ nr_reg = 0
    /\ nr_ret = 0

NextCounter ==
    \/ \E p \in Pools : AddLoad(p)
    \/ \E p \in Pools : AddStore(p)
    \/ \E p \in Pools : RemoveLoad(p)
    \/ \E p \in Pools : RemoveStore(p)
    \/ ion_page_pool_nr_pages
    \/ NrPagesClamp
    \/ NrPagesReturn

(***************************************************************************)
(* The boost driver after devfreq_boost_init() returned 0: the kthread     *)
(* runs, the input handler and the notifier are registered, no device is.  *)
(***************************************************************************)
InitBoost ==
    /\ df = "NULL"
    /\ max_freq = 0
    /\ min_freq = 0
    /\ updates = FALSE
    /\ state = {}
    /\ unboost_pending = FALSE
    /\ unboost_delay = 0
    /\ unboost_pc = "idle"
    /\ w_pc = "wait"
    /\ old_state = {}
    /\ curr_state = {}
    /\ should_stop = FALSE
    /\ k_pc = [k \in Kickers |-> "idle"]
    /\ k_max = [k \in Kickers |-> FALSE]
    /\ n_pc = "idle"
    /\ scen = "none"

KickStep(k) ==
    \/ KickCheck(k)
    \/ KickSetMax(k)
    \/ KickClearInput(k)
    \/ KickSetInput(k)
    \/ KickMod(k)
    \/ KickWake(k)

UnboostStep ==
    \/ UnboostClearMax
    \/ UnboostClearInput
    \/ UnboostWake

NextBoost ==
    \/ \E k \in Kickers, max \in BOOLEAN : devfreq_boost_kick(k, max)
    \/ \E k \in Kickers : devfreq_boost_input_event(k)
    \/ \E k \in Kickers : KickStep(k)
    \/ \E mf \in MaxFreqs : devfreq_register_boost_device(mf)
    \/ UnboostFire
    \/ UnboostStep
    \/ WorkerWait
    \/ WorkerUpdate
    \/ \E a \in NotifierActions, bl \in BlankValues : msm_drm_notifier_cb(a, bl)
    \/ NotifierWake

\* The boost driver when devfreq_boost_init() fails after it has started
\* the kthread: it stops the kthread again.  The notifier is not registered
\* on that path; devices register and kicks arrive as ever.
NextBoostStop ==
    \/ \E k \in Kickers, max \in BOOLEAN : devfreq_boost_kick(k, max)
    \/ \E k \in Kickers : devfreq_boost_input_event(k)
    \/ \E k \in Kickers : KickStep(k)
    \/ \E mf \in MaxFreqs : devfreq_register_boost_device(mf)
    \/ UnboostFire
    \/ UnboostStep
    \/ WorkerWait
    \/ WorkerUpdate
    \/ KthreadStop

\* Each driver is followed on its own; the other one stays as constructed.
Init == InitBoost /\ InitPool /\ InitCounter

SpecBoost == Init /\ [][NextBoost]_vars

SpecBoostStop == Init /\ [][NextBoostStop]_vars

SpecPool == Init /\ [][NextPool]_vars

SpecCounter == Init /\ [][NextCounter]_vars

\* Code that has started runs on: a kick under way returns, an armed timer
\* expires, the work runs, the notifier returns, the (SCHED_FIFO) kthread
\* is scheduled.  Nothing obliges anyone to call in.
FairBoost ==
    /\ \A k \in Kickers : WF_vars(KickStep(k))
    /\ WF_vars(UnboostFire)
    /\ WF_vars(UnboostStep)
    /\ WF_vars(NotifierWake)
    /\ WF_vars(WorkerWait)
    /\ WF_vars(WorkerUpdate)

FairSpecBoost == SpecBoost /\ FairBoost

(***************************************************************************)
(* Properties of the boost driver.                                         *)
(***************************************************************************)
NoKickUnderWay == \A k \in Kickers : k_pc[k] \in {"idle", "check"}

\* C1: INPUT_BOOST and MAX_BOOST are never both set; in particular MAX_BOOST
\* is clear once a kick(max=false) has returned.  Stated for the instants at
\* which no kick is between its check and its return and the unboost
\* callback is not running, which the claim includes.
C1_BoostBitsExclusive ==
    (NoKickUnderWay /\ unboost_pc = "idle")
        => ~(INPUT_BOOST \in state /\ MAX_BOOST \in state)

\* C2: the kthread never runs the governor update with no device
\* registered (it never dereferences the absent handle).
C2_NoUpdateWithoutDevice == w_pc # "oops"

\* C3: the minimum frequency the kthread pushed last is the precedence
\* function of the state value it observed (old_state after the push):
\* freq_table[0] under SCREEN_OFF, else max_freq under MAX_BOOST, else
\* min(boost_freq, max_freq) under INPUT_BOOST, else freq_table[0].
C3_PushedFreqFollowsPrecedence ==
    updates =>
        min_freq =
            CASE SCREEN_OFF \in old_state -> freq_table_0
              [] SCREEN_OFF \notin old_state /\ MAX_BOOST \in old_state -> max_freq
              [] old_state = {INPUT_BOOST} ->
                    IF boost_freq <= max_freq THEN boost_freq ELSE max_freq
              [] old_state = {} -> freq_table_0

\* C3's case: an input boost pushed on a device whose maximum is below the
\* configured boost frequency.
C3_Witness ==
    /\ updates
    /\ old_state = {INPUT_BOOST}
    /\ max_freq < boost_freq
    /\ min_freq = max_freq

\* C4: kick(max=false) followed by kick(max=true), on a registered,
\* screen-on device and with nothing in between (no timer expiry, no
\* notifier call, no other kick), leaves state = {MAX_BOOST}.
C4_InputThenMaxKick == scen = "d2" => state = {MAX_BOOST}

\* C4's case: the second kick of the scenario has returned.
C4_Witness == scen = "d2" /\ df = "df"

\* C5: when the screen goes off on a registered device while MAX_BOOST is
\* set, MAX_BOOST stays set and the kthread pushes freq_table[0]: once the
\* notifier has returned and the kthread has no step left to take, the
\* governor's minimum is freq_table[0], pushed by the kthread.
C5_ScreenOffOverridesMax ==
    ( /\ df = "df"
      /\ SCREEN_OFF \in state
      /\ MAX_BOOST \in state
      /\ n_pc = "idle"
      /\ w_pc \notin {"wait", "update"} )
        => (updates /\ min_freq = freq_table_0)

\* The same with the kthread alive and asleep: what is left of C5 when the
\* kthread has not faulted (C2).
ScreenOffOverridesMaxWhileAsleep ==
    ( /\ df = "df"
      /\ SCREEN_OFF \in state
      /\ MAX_BOOST \in state
      /\ n_pc = "idle"
      /\ w_pc = "sleep" )
        => (updates /\ min_freq = freq_table_0)

\* C6: once the unboost armed by a kick has expired and its callback has
\* returned, with no further kick (nothing armed again, no kick under way),
\* INPUT_BOOST and MAX_BOOST are both clear and the callback's wake_up has
\* had its effect: a kthread that has gone back to sleep has left
\* freq_table[0] as the last frequency it pushed.
C6_UnboostSettlesAtMin ==
    ( /\ unboost_delay # 0
      /\ ~unboost_pending
      /\ unboost_pc = "idle"
      /\ NoKickUnderWay )
        => /\ INPUT_BOOST \notin state
           /\ MAX_BOOST \notin state
           /\ (w_pc = "sleep" /\ updates) => min_freq = freq_table_0

\* C6's case: a kick boosted the device, the kthread pushed the boost, the
\* unboost expired, and the kthread pushed again and sleeps.
C6_Witness ==
    /\ unboost_delay # 0
    /\ ~unboost_pending
    /\ unboost_pc = "idle"
    /\ NoKickUnderWay
    /\ SCREEN_OFF \notin state
    /\ w_pc = "sleep"
    /\ updates
    /\ old_state = {}

\* C7: a kick whose check finds no device registered, or SCREEN_OFF set,
\* returns at once: the state bits, the unboost work and the kthread are
\* as they were.
C7_BailedKickIsNoOp ==
    [][ \A k \in Kickers :
          ( /\ k_pc[k] = "check"
            /\ (df = "NULL" \/ SCREEN_OFF \in state)
            /\ k_pc'[k] # "check" )
              => /\ k_pc'[k] = "idle"
                 /\ UNCHANGED <<state, unboost_pending, unboost_delay,
                                unboost_pc, w_pc, min_freq, updates>> ]_vars

\* C7's case: a max kick on a registered device reaches its check with the
\* screen off.
C7_Witness ==
    \E k \in Kickers :
        k_pc[k] = "check" /\ k_max[k] /\ df = "df" /\ SCREEN_OFF \in state

\* C15: a kick that has passed its check arms the unboost work with the
\* duration of its kind (the max duration for max = true, the input
\* duration for max = false) and goes on to wake_up() exactly when the work
\* was not pending as it armed it; when the work was pending the kick
\* returns from mod_delayed_work() and the kthread is left as it is.
C15_KickWakesIffNotPending ==
    [][ \A k \in Kickers :
          /\ (k_pc[k] = "mod" /\ k_pc'[k] # "mod")
                => /\ unboost_pending'
                   /\ unboost_delay' =
                        IF k_max[k]
                          THEN CONFIG_DEVFREQ_INPUT_BOOST_MAX_DURATION_MS
                          ELSE CONFIG_DEVFREQ_INPUT_BOOST_DURATION_MS
                   /\ w_pc' = w_pc
                   /\ k_pc'[k] = IF unboost_pending THEN "idle" ELSE "wake"
          /\ (k_pc'[k] = "wake" /\ k_pc[k] # "wake")
                => (k_pc[k] = "mod" /\ ~unboost_pending)
          /\ (k_pc[k] = "wake" /\ k_pc'[k] # "wake")
                => /\ k_pc'[k] = "idle"
                   /\ w_pc = "sleep" => w_pc' = "wait"
                   /\ UNCHANGED <<unboost_pending, unboost_delay>> ]_vars

\* C15's case: a max kick has rescheduled the deadline an input kick had
\* armed, and has returned with the kthread still asleep on the input
\* boost it pushed.
C15_Witness ==
    /\ \A k \in Kickers : k_pc[k] = "idle"
    /\ unboost_pending
    /\ unboost_delay = CONFIG_DEVFREQ_INPUT_BOOST_MAX_DURATION_MS
    /\ state = {MAX_BOOST}
    /\ old_state = {INPUT_BOOST}
    /\ w_pc = "sleep"

C17_NoPushAfterStop ==
    [][ (should_stop /\ w_pc = "wait" /\ df = "df") => w_pc' # "update" ]_vars

\* What the kthread does do after kthread_stop(): it leaves its loop only
\* from a wait_event() that found b->state equal to old_state.
StopExitsOnlyWithStateApplied ==
    [][ (w_pc # "exit" /\ w_pc' = "exit")
            => (should_stop /\ w_pc = "wait" /\ state = old_state) ]_vars

\* C18: when a kick(max=true) on a registered, screen-on device has
\* returned, the kthread pushes df->max_freq before the unboost clears the
\* bits, also when the kick rescheduled the deadline of an input kick.
\* Stated for the run the observer scen follows (kick(false), then
\* kick(true), no timer expiry, no notifier call and no other kick in
\* between): once the second kick has returned, a kthread that is asleep,
\* and so will push nothing before the unboost wakes it, has pushed
\* df->max_freq.
C18_MaxKickApplied ==
    (scen = "d2" /\ w_pc = "sleep") => (updates /\ min_freq = max_freq)

\* What holds in its place: the kthread asleep has pushed the frequency of
\* the state it observed last, which need not be the state a kick left.
AsleepWithObservedStateApplied ==
    (w_pc = "sleep" /\ df = "df" /\ updates)
        => min_freq = devfreq_update_boosts(old_state, max_freq)

\* Nobody is inside __devfreq_boost_kick.
KicksStopped == \A k \in Kickers : k_pc[k] = "idle"

\* C19: under every interleaving of kicks with the unboost callback,
\* whenever no kick is between its check and its return and INPUT_BOOST or
\* MAX_BOOST is set, the unboost work is pending or its callback is still
\* running; and so, if from some point on no kick is made, both bits end up
\* clear for good.
C19_BoostNeverStuck ==
    /\ []( ( /\ NoKickUnderWay
             /\ (INPUT_BOOST \in state \/ MAX_BOOST \in state) )
              => (unboost_pending \/ unboost_pc # "idle") )
    /\ (<>[]KicksStopped
            => <>[](INPUT_BOOST \notin state /\ MAX_BOOST \notin state))

\* C19's case: a kick ran while the callback was in mid-course: the
\* callback has cleared MAX_BOOST and has INPUT_BOOST still to clear, and
\* the kick, returned, left MAX_BOOST set and the work queued again.
C19_Witness ==
    /\ unboost_pc = "clear_input"
    /\ unboost_pending
    /\ KicksStopped
    /\ MAX_BOOST \in state

(***************************************************************************)
(* Properties of the page pool.                                            *)
(***************************************************************************)
\* The pooled pages, all of them.
Pooled == {low_items[i] : i \in DOMAIN low_items}
              \cup {high_items[i] : i \in DOMAIN high_items}

\* C8: an alloc(from_pool = true) that gets the lock of a non-empty pool
\* takes the page inserted first among the highmem pages if there is one,
\* else the page inserted first among the low pages, takes exactly that
\* page out of the pool, and returns it.
C8_AllocReturnsOldest ==
    [][ \A c \in Callers :
          /\ ( /\ c_op[c] = "none"
               /\ c_op'[c] = "alloc"
               /\ lock = UNLOCKED
               /\ lock' = c
               /\ inserted # <<>> )
                => LET highs == SelectSeq(inserted, PageHighMem)
                       oldest == IF highs # <<>> THEN Head(highs)
                                                 ELSE Head(inserted)
                   IN /\ c_page'[c] = oldest
                      /\ Pooled' = Pooled \ {oldest}
                      /\ low_count' + high_count' = low_count + high_count - 1
                      /\ Len(low_items') + Len(high_items') =
                            Len(low_items) + Len(high_items) - 1
          /\ ( /\ c_op[c] = "alloc"
               /\ c_pc[c] = "unlock"
               /\ c_page[c] # NULL
               /\ c_pc'[c] # "unlock" )
                => /\ c_pc'[c] = "ret"
                   /\ c_ret'[c] = c_page[c]
                   /\ c_from_pool'[c] ]_vars

\* C8's case: low page 1 and low page 3 were freed, in this order, and an
\* alloc returns page 1 from the pool, page 3 staying in it.
C8_Witness ==
    \E c \in Callers :
        /\ c_op[c] = "alloc"
        /\ c_pc[c] = "ret"
        /\ c_from_pool[c]
        /\ c_ret[c] = 1
        /\ low_items = <<3>>

C10_ShrinkZeroIsQuery ==
    [][ \A c \in Callers :
          LET call == /\ c_op[c] = "none"
                      /\ \/ c_op'[c] = "total"
                         \/ c_op'[c] = "shrink" /\ c_scan'[c] = 0
              fin == /\ c_op[c] \in {"total", "shrink"}
                     /\ c_pc[c] = "total_high"
                     /\ c_pc'[c] # "total_high"
          IN /\ (call \/ fin)
                  => UNCHANGED <<low_items, high_items, low_count, high_count,
                                 nr_total_pages, lock, raw, user>>
             /\ call => (c_pc'[c] = "total_high" /\ c_count'[c] = low_count)
             /\ fin => /\ c_pc'[c] = "ret"
                       /\ c_ret'[c] =
                            (c_count[c] + IF c_high[c] THEN high_count ELSE 0)
                                * 2^order ]_vars

\* C10's case: shrink(0) for a caller without high returns the low pages
\* alone while the pool holds high pages too.
C10_Witness ==
    \E c \in Callers :
        /\ c_op[c] = "shrink"
        /\ c_pc[c] = "ret"
        /\ low_count > 0 /\ high_count > 0
        /\ c_ret[c] = low_count * 2^order
        /\ lock = UNLOCKED

\* C11: a turn of shrink(nr_to_scan > 0) that takes a page from the high
\* list does so with the low list empty and for a caller that has high set
\* (kswapd, or a gfp_mask with __GFP_HIGHMEM); a shrink whose caller has not
\* leaves high_count and the high list as they are at every one of its
\* steps, whatever the others do in between.
C11_ShrinkLowBeforeHigh ==
    [][ \A c \in Callers :
          ( /\ c_op[c] = "shrink"
            /\ c_scan[c] > 0
            /\ <<c_pc[c], c_page[c], c_ret[c]>>' # <<c_pc[c], c_page[c], c_ret[c]>> )
              => /\ (high_items' # high_items \/ high_count' # high_count)
                      => /\ low_items = <<>>
                         /\ low_count = 0
                         /\ c_high[c]
                         /\ high_items' = Tail(high_items)
                         /\ c_page'[c] = Head(high_items)
                 /\ ~c_high[c]
                      => UNCHANGED <<high_items, high_count>> ]_vars

\* C11's case: a shrink with high set, having found the low list empty,
\* holds a highmem page it took while another highmem page stays pooled.
C11_Witness ==
    \E c \in Callers :
        /\ c_op[c] = "shrink"
        /\ c_pc[c] = "unlock"
        /\ c_high[c]
        /\ c_page[c] # NULL
        /\ PageHighMem(c_page[c])
        /\ low_items = <<>>
        /\ high_items # <<>>

\* budget rounded up to the next multiple of unit.
RoundUp(budget, unit) == ((budget + unit - 1) \div unit) * unit

\* C12: the value a shrink(nr_to_scan > 0) returns is the number of pages it
\* handed to __free_pages(), shifted left by the order; it is at most
\* nr_to_scan rounded up to a multiple of 1 << order; and it is below
\* nr_to_scan only if the last time the call took the lock it found the low
\* list empty and, for a caller with high set, the high list empty too.
C12_ShrinkReturnValue ==
    [][ \A c \in Callers :
          ( /\ c_op[c] = "shrink"
            /\ c_scan[c] > 0
            /\ c_pc[c] = "unlock"
            /\ c_pc'[c] = "ret" )
              => /\ c_ret'[c] = c_released'[c] * 2^order
                 /\ Cardinality(raw') - Cardinality(raw) =
                        c_released'[c] - c_released[c]
                 /\ c_ret'[c] <= RoundUp(c_scan[c], 2^order)
                 /\ c_ret'[c] < c_scan[c]
                      => /\ c_page[c] = NULL
                         /\ lock = c
                         /\ low_items = <<>> /\ low_count = 0
                         /\ c_high[c] => (high_items = <<>> /\ high_count = 0) ]_vars

\* C12's case: a shrink with a budget that is not a multiple of the unit
\* has released two pages and returns more than it was asked for.
C12_Witness ==
    \E c \in Callers :
        /\ c_op[c] = "shrink"
        /\ c_pc[c] = "ret"
        /\ c_released[c] = 2
        /\ c_ret[c] = MaxScan + 1

\* The places a page is at: the page allocator, a user of the pool, a
\* position in one of the two lists, the local of a caller that has popped
\* it, the return value of an alloc or alloc_pool_only.
Holders(page) ==
    (IF page \in raw THEN 1 ELSE 0)
    + (IF page \in user THEN 1 ELSE 0)
    + Cardinality({i \in DOMAIN low_items : low_items[i] = page})
    + Cardinality({i \in DOMAIN high_items : high_items[i] = page})
    + Cardinality({c \in Callers : c_page[c] = page})
    + Cardinality({c \in Callers : /\ c_op[c] \in {"alloc", "alloc_pool_only"}
                                   /\ c_pc[c] = "ret"
                                   /\ c_ret[c] = page})

\* C20: under every interleaving of alloc, alloc_pool_only, free and shrink
\* on the pool, every page has exactly one holder: a pooled page is in one
\* list, once, the list of its class; a page popped is held by the one
\* caller that popped it, which either returns it or hands it to
\* __free_pages(), never both and never twice.
C20_SingleOwner ==
    /\ \A page \in Pages : Holders(page) = 1
    /\ \A i \in DOMAIN low_items : ~PageHighMem(low_items[i])
    /\ \A i \in DOMAIN high_items : PageHighMem(high_items[i])

\* C20's case: two callers hold a page each that they popped from the
\* pool, one to return it and one, in shrink, to free it, while the pool
\* holds more.
C20_Witness ==
    \E c, d \in Callers :
        /\ c_op[c] = "alloc" /\ c_pc[c] = "ret" /\ c_from_pool[c]
        /\ c_ret[c] \in Pages
        /\ c_op[d] = "shrink" /\ c_pc[d] = "unlock" /\ c_page[d] \in Pages
        /\ c_ret[c] # c_page[d]
        /\ low_count + high_count > 0

(***************************************************************************)
(* Properties of nr_total_pages.                                           *)
(***************************************************************************)
\* C13: the value ion_page_pool_nr_pages() returns is never negative,
\* whatever adds and removes went before and however its reads interleave
\* with the unsynchronised updates of nr_total_pages by other pools.
C13_NrPagesNeverNegative == nr_ret >= 0

\* What is left of C13 when the value returned is the one the test loaded
\* (or the 0 stored over a negative one): that value is never negative.
NrPagesTestedValueNotNegative == nr_pc = "ret" => nr_reg >= 0

\* The clamp has work to do: updates were lost and the counter went
\* negative with every pool empty.
NrTotalPagesWentNegative ==
    /\ nr_total_pages < 0
    /\ \A p \in Pools : p_pc[p] = "idle" /\ p_count[p] = 0

\* C14: whenever the pool lock is free, low_count is the length of the low
\* list and high_count the length of the high list, neither negative; no
\* BUG_ON() of ion_page_pool_remove() ever fires; and every step that
\* changes a count or a list is taken by a caller that holds the lock, having
\* found it free.  Under every interleaving of alloc, alloc_pool_only, free
\* and shrink on the pool.
C14_CountsMatchLists ==
    /\ [](lock = UNLOCKED =>
              /\ low_count = Len(low_items)
              /\ high_count = Len(high_items)
              /\ low_count >= 0
              /\ high_count >= 0)
    /\ [](~bug_on)
    /\ [][ <<low_items, high_items, low_count, high_count>>' #
              <<low_items, high_items, low_count, high_count>>
              => /\ lock = UNLOCKED
                 /\ lock' \in Callers
                 /\ c_pc'[lock'] = "unlock" ]_vars

\* C14's case: with pages of both classes pooled and the lock free, one
\* caller is between two turns of its shrink loop while another is
\* returning a page it took from the pool.
C14_Witness ==
    \E c, d \in Callers :
        /\ c # d
        /\ lock = UNLOCKED
        /\ c_op[c] = "shrink" /\ c_pc[c] = "shrink_lock" /\ c_freed[c] > 0
        /\ c_op[d] = "alloc_pool_only" /\ c_pc[d] = "ret" /\ c_ret[d] \in Pages
        /\ low_count > 0 /\ high_count > 0

=============================================================================
